---- MODULE Spec2Model ----
(***************************************************************************)
(* Model of the auto splitter in src/src/lib.rs: the per-tick handler      *)
(* update(), the watchers it refreshes (Game::update_vars), the frame      *)
(* accumulator (Vars::frame_count) and the ordered rule chain should_split.*)
(* The host timer and the emulator process are the environment.            *)
(***************************************************************************)
EXTENDS Integers, Sequences, FiniteSets, TLC

VARIABLES
    settings,                 \* State.settings: Option<Settings>
    game,                     \* State.game.is_some()
    watch,                    \* the Watcher<T> fields of Game, by field name
    accumulated_frame_count,  \* Game.accumulated_frame_count: i64
    delayed_split,            \* Game.delayed_split: Option<(&str, i64)>
    run_progress,             \* Game.run_progress: RunProgress
    timer_state,              \* what timer::state() answers (host timer)
    clear_on_fail,            \* asr Watcher::update(None): clears the pair or keeps it
    out,                      \* the timer calls made by the last update()
    emittedRun,               \* history: guarded labels split since the last run start
    emittedGame,              \* history: guarded labels split since Game::new_ntscj
    reported                  \* history: the last set_game_time argument since the
                              \* timer became active

vars == <<settings, game, watch, accumulated_frame_count, delayed_split,
          run_progress, timer_state, clear_on_fail, out, emittedRun, emittedGame,
          reported>>

\* Option<T>: None is the empty sequence, Some(x) the one-element sequence.
None == <<>>
Some(x) == <<x>>
IsSome(o) == o # <<>>
Unwrap(o) == o[1]

Min(S) == CHOOSE x \in S : \A y \in S : x <= y
Max(S) == CHOOSE x \in S : \A y \in S : x >= y

(***************************************************************************)
(* Memory layout data.                                                     *)
(***************************************************************************)

\* bitflags InventoryItem: the mask of each flag (1 << n).
InventoryItem ==
    [PAUSE_MENU |-> 1, SMITHS_SWORD |-> 4, WHITE_SWORD |-> 16, WHITE_SWORD2 |-> 64,
     WHITE_SWORD3 |-> 1, SWORD_LAMP |-> 4, FOUR_SWORD |-> 16, BOMBS |-> 64,
     REMOTE_BOMBS |-> 1, BOW |-> 4, BOW2 |-> 16, BOOMERANG |-> 64,
     MAGICAL_BOOMERANG |-> 1, SHIELD |-> 4, MIRROR_SHIELD |-> 16, FLAME_LANTERN |-> 64,
     LAMP2 |-> 1, GUST_JAR |-> 4, CANE_OF_PACCI |-> 16, MOLE_MITTS |-> 64,
     ROCS_CAPE |-> 1, PEGASUS_BOOTS |-> 4, UNKNOWN |-> 16, OCARINA |-> 64]

\* bitflags Elements.
Elements == [EARTH |-> 1, FIRE |-> 4, WATER |-> 16, WIND |-> 64]

\* bitflags PermanentEquipment.
PermanentEquipment == [GRIP_RING |-> 1, POWER_BRACELETS |-> 4, FLIPPERS |-> 16, UNKNOWN |-> 64]

\* mod inventory_slot: the index into PauseMenu.inventory of each item.
inventory_slot ==
    [PAUSE_MENU |-> 0, SMITHS_SWORD |-> 0, WHITE_SWORD |-> 0, WHITE_SWORD2 |-> 0,
     WHITE_SWORD3 |-> 1, SWORD_LAMP |-> 1, FOUR_SWORD |-> 1, BOMBS |-> 1,
     REMOTE_BOMBS |-> 2, BOW |-> 2, BOW2 |-> 2, BOOMERANG |-> 2,
     MAGICAL_BOOMERANG |-> 3, SHIELD |-> 3, MIRROR_SHIELD |-> 3, FLAME_LANTERN |-> 3,
     LAMP2 |-> 4, GUST_JAR |-> 4, CANE_OF_PACCI |-> 4, MOLE_MITTS |-> 4,
     ROCS_CAPE |-> 5, PEGASUS_BOOTS |-> 5, UNKNOWN |-> 5, OCARINA |-> 5]

\* impl Scene: the scene ids (0x48 = 72, 0x49 = 73, 0x50 = 80, 0x51 = 81,
\* 0x58 = 88, 0x60 = 96, 0x70 = 112, 0x8B = 139, ...).
Scene ==
    [TITLE_SCREEN |-> 0, MINISH_WOODS |-> 0, MINISH_VILLAGE |-> 1, MARKET_PLACE |-> 2,
     OVERWORLD |-> 3, MT_CRENEL |-> 6, COURTYARD |-> 7, MELARIS_MINES |-> 16,
     MARKET_PLACE_INTRO |-> 21, FORTRESS_OF_WINDS |-> 24, HOUSE |-> 32,
     LINKS_HOUSE |-> 34, DEEPWOOD_SHRINE |-> 72, DEEPWOOD_SHRINE_BOSS |-> 73,
     CAVE_OF_FLAMES |-> 80, CAVE_OF_FLAMES_BOSS |-> 81,
     FORTRESS_OF_WINDS_GREEN_FLOOR |-> 88, TEMPLE_OF_DROPLETS |-> 96,
     PALACE_OF_WINDS |-> 112, HYRULE_CASTLE |-> 128, DARK_HYRULE_CASTLE |-> 136,
     VAATI3 |-> 139]

\* impl Sprite (0x31C = 796).
Sprite == [RECEIVE_MINISH_CAP |-> 796]

\* bitflags contains(), for the single-bit masks used here.
Contains(byte, mask) == (byte \div mask) % 2 = 1

\* PauseMenu::has_item: self.inventory[inventory_slot].contains(inventory_item)
has_item(menu, slot, item) == Contains(menu.inventory[slot + 1], item)

\* A PauseMenu value with nothing set (the _unknown bytes are never read).
EmptyMenu == [inventory |-> <<0, 0, 0, 0, 0, 0>>, elements |-> 0, permanent_equipment |-> 0]

\* The fields Game::update_vars refreshes, in the order it refreshes them.
FieldOrder ==
    <<"pause_menu", "scene", "dhc_big_key", "vaati3_phases", "sprite", "frame_count",
      "uix_position", "uiy_position", "link_position_y", "visual_rupees",
      "visual_hearts", "visual_keys", "tiger_scrolls", "mysterious_shells", "bombs">>

Fields == {FieldOrder[i] : i \in 1..Len(FieldOrder)}

FieldIndexes == [f \in Fields |-> CHOOSE i \in 1..Len(FieldOrder) : FieldOrder[i] = f]

FieldIndex(f) == FieldIndexes[f]

\* struct Settings: the toggles, all of them `#[default = true]`.
Toggles ==
    {"get_smiths_sword", "receive_minish_cap", "enter_deepwood_shrine", "get_gust_jar",
     "enter_deepwood_shrine_boss_room", "get_earth_element", "enter_mt_crenel",
     "get_grip_ring", "enter_cave_of_flames", "get_cane_of_pacci",
     "enter_cave_of_flames_boss_room", "get_fire_element", "get_pegasus_boots",
     "get_bow", "enter_fortress_of_winds", "get_mole_mitts",
     "enter_fortress_of_winds_boss_room", "get_ocarina", "get_magical_boomerang",
     "get_power_bracelets", "get_flippers", "enter_temple_of_droplets",
     "get_flame_lantern", "get_water_element", "enter_palace_of_winds",
     "get_rocs_cape", "get_wind_element", "get_four_sword", "get_dhc_big_key",
     "defeat_vaati"}

DefaultSettings == [t \in Toggles |-> TRUE]

\* The settings with the toggles in `off` disabled.
Disabled(off) == [t \in Toggles |-> t \notin off]

\* #[derive(Default)] struct RunProgress: every flag false.
RunProgressDefault ==
    [smiths_sword |-> FALSE, deepwood_shrine |-> FALSE, deepwood_shrine_boss |-> FALSE,
     mt_crenel |-> FALSE, cave_of_flames |-> FALSE, cave_of_flames_boss |-> FALSE,
     fortress_of_winds |-> FALSE, fortress_of_winds_boss |-> FALSE,
     temple_of_droplets |-> FALSE, palace_of_winds |-> FALSE]

Guards == DOMAIN RunProgressDefault

(***************************************************************************)
(* Watchers.  Game's Watcher<T> wraps asr::watcher::Watcher<T>, whose pair *)
(* is None until the first successful read.                                *)
(***************************************************************************)

Pair(old, current) == [old |-> old, current |-> current]

\* Mutation of WatcherUpdate: a successful read does not move current into
\* old.
WatcherUpdateKeepsOld(pair, value, clear) ==
    IF IsSome(value)
    THEN IF IsSome(pair)
         THEN Some(Pair(Unwrap(pair).old, Unwrap(value)))
         ELSE Some(Pair(Unwrap(value), Unwrap(value)))
    ELSE IF clear THEN None ELSE pair

\* Watcher::update: self.watcher.update(emulator.read(self.address).ok()).
\* `value` is the read's result as an Option.  A successful read moves
\* current into old (the first one fills both); a failed read makes update
\* return None, and the asr watcher then either drops its pair (`clear`) or
\* keeps it.
WatcherUpdate(pair, value, clear) ==
    IF IsSome(value)
    THEN IF IsSome(pair)
         THEN Some(Pair(Unwrap(pair).current, Unwrap(value)))
         ELSE Some(Pair(Unwrap(value), Unwrap(value)))
    ELSE IF clear THEN None ELSE pair

\* Game::new_ntscj: every watcher empty.
NewWatch == [f \in Fields |-> None]

\* Game::update_vars: the watchers are refreshed in FieldOrder and the first
\* failed read returns None (`?`), leaving the later watchers untouched.
\* `mem` gives the value each read finds; `failAt` is the index of the first
\* failing read, 0 when every read succeeds.
UpdateWatchers(w, mem, failAt, clear) ==
    [f \in Fields |->
        IF failAt = 0 \/ FieldIndex(f) < failAt
        THEN WatcherUpdate(w[f], Some(mem[f]), clear)
        ELSE IF FieldIndex(f) = failAt
             THEN WatcherUpdate(w[f], None, clear)
             ELSE w[f]]

(***************************************************************************)
(* should_split.  `v` is the Vars of the tick: the pair of every field by  *)
(* name, and accumulated_frame_count, delayed_split, run_progress.         *)
(***************************************************************************)

\* Mutation of frame_count: the accumulator is left out.
FrameCountNarrow(v) == v.frame_count.current

\* Vars::frame_count
frame_count(v) == v.accumulated_frame_count + v.frame_count.current

InventoryRule(item, toggle, label) ==
    [kind |-> "item", part |-> "inventory", slot |-> inventory_slot[item],
     mask |-> InventoryItem[item], toggle |-> toggle, label |-> label]

ElementRule(element, toggle, label) ==
    [kind |-> "item", part |-> "elements", slot |-> 0,
     mask |-> Elements[element], toggle |-> toggle, label |-> label]

EquipmentRule(equipment, toggle, label) ==
    [kind |-> "item", part |-> "permanent_equipment", slot |-> 0,
     mask |-> PermanentEquipment[equipment], toggle |-> toggle, label |-> label]

AreaRule(guard, scene, toggle, label) ==
    [kind |-> "area", guard |-> guard, scene |-> Scene[scene],
     toggle |-> toggle, label |-> label]

\* The `if` blocks of should_split after the delayed-split check, in order.
Rules ==
    << [kind |-> "sword", part |-> "inventory", slot |-> inventory_slot.SMITHS_SWORD,
        mask |-> InventoryItem.SMITHS_SWORD, guard |-> "smiths_sword",
        toggle |-> "get_smiths_sword", label |-> "Get Smith's Sword"],
       [kind |-> "sprite_delayed", sprite |-> Sprite.RECEIVE_MINISH_CAP,
        scene |-> Scene.MINISH_WOODS, toggle |-> "receive_minish_cap",
        label |-> "Receive Minish Cap", delay |-> 20],
       AreaRule("deepwood_shrine", "DEEPWOOD_SHRINE", "enter_deepwood_shrine",
                "Enter Deepwood Shrine"),
       InventoryRule("GUST_JAR", "get_gust_jar", "Get Gust Jar"),
       AreaRule("deepwood_shrine_boss", "DEEPWOOD_SHRINE_BOSS",
                "enter_deepwood_shrine_boss_room", "Enter Deepwood Shrine Boss Room"),
       ElementRule("EARTH", "get_earth_element", "Get Earth Element"),
       AreaRule("mt_crenel", "MT_CRENEL", "enter_mt_crenel", "Enter Mt. Crenel"),
       EquipmentRule("GRIP_RING", "get_grip_ring", "Get Grip Ring"),
       AreaRule("cave_of_flames", "CAVE_OF_FLAMES", "enter_cave_of_flames",
                "Enter Cave of Flames"),
       InventoryRule("CANE_OF_PACCI", "get_cane_of_pacci", "Get Cane of Pacci"),
       AreaRule("cave_of_flames_boss", "CAVE_OF_FLAMES_BOSS",
                "enter_cave_of_flames_boss_room", "Enter Cave of Flames Boss Room"),
       ElementRule("FIRE", "get_fire_element", "Get Fire Element"),
       InventoryRule("PEGASUS_BOOTS", "get_pegasus_boots", "Get Pegasus Boots"),
       InventoryRule("BOW", "get_bow", "Get Bow"),
       AreaRule("fortress_of_winds", "FORTRESS_OF_WINDS", "enter_fortress_of_winds",
                "Enter Fortress of Winds"),
       InventoryRule("MOLE_MITTS", "get_mole_mitts", "Get Mole Mitts"),
       [kind |-> "area_gated", guard |-> "fortress_of_winds_boss",
        scene |-> Scene.FORTRESS_OF_WINDS_GREEN_FLOOR, max_y |-> 1015,
        toggle |-> "enter_fortress_of_winds_boss_room",
        label |-> "Enter Fortress of Winds Boss Room"],
       InventoryRule("OCARINA", "get_ocarina", "Get Ocarina"),
       InventoryRule("MAGICAL_BOOMERANG", "get_magical_boomerang",
                     "Get Magical Boomerang"),
       EquipmentRule("POWER_BRACELETS", "get_power_bracelets", "Get Power Bracelets"),
       EquipmentRule("FLIPPERS", "get_flippers", "Get Flippers"),
       AreaRule("temple_of_droplets", "TEMPLE_OF_DROPLETS", "enter_temple_of_droplets",
                "Enter Temple of Droplets"),
       InventoryRule("FLAME_LANTERN", "get_flame_lantern", "Get Flame Lantern"),
       ElementRule("WATER", "get_water_element", "Get Water Element"),
       AreaRule("palace_of_winds", "PALACE_OF_WINDS", "enter_palace_of_winds",
                "Enter Palace of Winds"),
       InventoryRule("ROCS_CAPE", "get_rocs_cape", "Get Roc's Cape"),
       ElementRule("WIND", "get_wind_element", "Get Wind Element"),
       [kind |-> "item_delayed", part |-> "inventory",
        slot |-> inventory_slot.FOUR_SWORD, mask |-> InventoryItem.FOUR_SWORD,
        toggle |-> "get_four_sword", label |-> "Get Four Sword", delay |-> 244],
       [kind |-> "key", mask |-> 4, toggle |-> "get_dhc_big_key",
        label |-> "Get DHC Big Key"],
       [kind |-> "vaati", scene |-> Scene.VAATI3, old |-> 1, current |-> 0,
        toggle |-> "defeat_vaati", label |-> "Defeat Vaati"] >>

RuleIds == 1..Len(Rules)

\* The closure a pause-menu rule hands to check(): is the rule's flag set in `menu`.
MenuFlag(r, menu) ==
    CASE r.part = "inventory" -> has_item(menu, r.slot, r.mask)
      [] r.part = "elements" -> Contains(menu.elements, r.mask)
      [] r.part = "permanent_equipment" -> Contains(menu.permanent_equipment, r.mask)

\* Mutation of CheckFlag: the old value is not consulted.
CheckFlagLevel(r, pair) == MenuFlag(r, pair.current)

\* Pair::check with a rule's flag: clear in old, set in current.
CheckFlag(r, pair) == ~MenuFlag(r, pair.old) /\ MenuFlag(r, pair.current)

\* Mutation of GuardClear: the guard is not consulted.
GuardClearIgnored(r, v) == TRUE

\* `!vars.run_progress.<guard>` of an area rule.
GuardClear(r, v) == ~v.run_progress[r.guard]

\* The condition of rule r's `if`: whether should_split enters the block
\* (and so returns from it) once it gets as far as this rule.
Enters(r, v, s) ==
    CASE r.kind = "sword" -> CheckFlag(r, v.pause_menu)
      [] r.kind = "sprite_delayed" ->
            /\ v.sprite.old # r.sprite /\ v.sprite.current = r.sprite
            /\ v.scene.current = r.scene
            /\ s[r.toggle]
      [] r.kind = "area" ->
            /\ GuardClear(r, v)
            /\ v.scene.current = r.scene
            /\ s[r.toggle]
      [] r.kind = "area_gated" ->
            /\ GuardClear(r, v)
            /\ v.scene.current = r.scene
            /\ v.link_position_y.current <= r.max_y
            /\ s[r.toggle]
      [] r.kind \in {"item", "item_delayed"} ->
            CheckFlag(r, v.pause_menu) /\ s[r.toggle]
      [] r.kind = "key" ->
            /\ ~Contains(v.dhc_big_key.old, r.mask)
            /\ Contains(v.dhc_big_key.current, r.mask)
            /\ s[r.toggle]
      [] r.kind = "vaati" ->
            /\ v.scene.current = r.scene
            /\ v.vaati3_phases.old = r.old
            /\ v.vaati3_phases.current = r.current
            /\ s[r.toggle]

\* What should_split returns and leaves in delayed_split and run_progress.
Verdict(ret, delayed, progress) ==
    [ret |-> ret, delayed_split |-> delayed, run_progress |-> progress]

\* Mutation of SetGuard: the flag is not written.
SetGuardForgotten(progress, guard) == progress

\* `vars.run_progress.<guard> = true`
SetGuard(progress, guard) == [progress EXCEPT ![guard] = TRUE]

\* Mutation of SwordLabel: the toggle is not consulted.
SwordLabelAlways(r, s) == Some(r.label)

\* settings.get_smiths_sword.then_some("Get Smith's Sword")
SwordLabel(r, s) == IF s[r.toggle] THEN Some(r.label) ELSE None

\* Mutation of Block: a delayed rule returns its label at once instead of
\* scheduling it.
BlockSplitsAtOnce(r, v, s) ==
    CASE r.kind = "sword" ->
            IF v.run_progress.smiths_sword
            THEN Verdict(None, v.delayed_split, v.run_progress)
            ELSE Verdict(SwordLabel(r, s), v.delayed_split,
                         SetGuard(v.run_progress, r.guard))
      [] r.kind \in {"area", "area_gated"} ->
            Verdict(Some(r.label), v.delayed_split, SetGuard(v.run_progress, r.guard))
      [] r.kind \in {"item", "key", "vaati", "sprite_delayed", "item_delayed"} ->
            Verdict(Some(r.label), v.delayed_split, v.run_progress)

\* The body of rule r's `if` block.
Block(r, v, s) ==
    CASE r.kind = "sword" ->
            IF v.run_progress.smiths_sword
            THEN Verdict(None, v.delayed_split, v.run_progress)
            ELSE Verdict(SwordLabel(r, s), v.delayed_split,
                         SetGuard(v.run_progress, r.guard))
      [] r.kind \in {"sprite_delayed", "item_delayed"} ->
            Verdict(None, Some(<<r.label, frame_count(v) + r.delay>>), v.run_progress)
      [] r.kind \in {"area", "area_gated"} ->
            Verdict(Some(r.label), v.delayed_split, SetGuard(v.run_progress, r.guard))
      [] r.kind \in {"item", "key", "vaati"} ->
            Verdict(Some(r.label), v.delayed_split, v.run_progress)

\* Mutation of DelayedDue: the due frame is not compared.
DelayedDueAnyPending(v) == IsSome(v.delayed_split)

\* The delayed-split check at the top of should_split.
DelayedDue(v) ==
    /\ IsSome(v.delayed_split)
    /\ frame_count(v) >= Unwrap(v.delayed_split)[2]

\* Mutation of RuleChain: a block entered does not return, so the last
\* block entered decides.
RuleChainLast(i, v, s) ==
    IF \A j \in i..Len(Rules) : ~Enters(Rules[j], v, s)
    THEN Verdict(None, v.delayed_split, v.run_progress)
    ELSE Block(Rules[Max({j \in i..Len(Rules) : Enters(Rules[j], v, s)})], v, s)

\* The chain of `if` blocks from rule i on: the first block entered returns.
RECURSIVE RuleChain(_, _, _)
RuleChain(i, v, s) ==
    IF i > Len(Rules)
    THEN Verdict(None, v.delayed_split, v.run_progress)
    ELSE IF Enters(Rules[i], v, s)
         THEN Block(Rules[i], v, s)
         ELSE RuleChain(i + 1, v, s)

\* Mutation of should_split: the delayed-split check comes after the rules.
should_split_RulesFirst(v, s) ==
    IF \E i \in RuleIds : Enters(Rules[i], v, s)
    THEN RuleChain(1, v, s)
    ELSE IF DelayedDue(v)
         THEN Verdict(Some(Unwrap(v.delayed_split)[1]), None, v.run_progress)
         ELSE Verdict(None, v.delayed_split, v.run_progress)

\* fn should_split
should_split(v, s) ==
    IF DelayedDue(v)
    THEN Verdict(Some(Unwrap(v.delayed_split)[1]), None, v.run_progress)
    ELSE RuleChain(1, v, s)

(***************************************************************************)
(* The tick handler.                                                       *)
(***************************************************************************)

\* The largest accumulated_frame_count the explored runs reach: one wrap of
\* a counter that was at 250, one wrap of the full 16-bit counter, and one
\* wrap of a counter that was at 10.
MaxAccumulated == 251
MaxAccumulatedWide == 65536
MaxAccumulatedShort == 11

\* `x as u64` of an i64: x itself, or x + 2^64 (`wrapped`) when x is negative.
AsU64(x) == [wrapped |-> x < 0, low |-> x]

\* What one update() told the timer: whether update_vars gave Some(vars),
\* whether timer::start() was called, the argument of set_game_time (in
\* frames) and the label handed to timer::split().
Calls(gotVars, started, game_time, split) ==
    [vars |-> gotVars, started |-> started, game_time |-> game_time, split |-> split]

NoCalls == Calls(FALSE, FALSE, None, None)

\* The labels of the rules that set a RunProgress flag.
GuardedLabels == {Rules[i].label : i \in {j \in RuleIds : "guard" \in DOMAIN Rules[j]}}

\* Vars: the pairs update_vars returned and the three &mut fields.
MakeVars(w, acc, delayed, progress) ==
    [f \in Fields |-> Unwrap(w[f])] @@
    [accumulated_frame_count |-> acc, delayed_split |-> delayed, run_progress |-> progress]

\* The values the reads of one tick may find: every field before the first
\* failing read draws from the environment E, the others are not read.
Dom(E, f, failAt) ==
    IF failAt = 0 \/ FieldIndex(f) < failAt THEN E[f] ELSE {CHOOSE x \in E[f] : TRUE}

Reads(E, failAt) ==
    [pause_menu : Dom(E, "pause_menu", failAt), scene : Dom(E, "scene", failAt),
     dhc_big_key : Dom(E, "dhc_big_key", failAt),
     vaati3_phases : Dom(E, "vaati3_phases", failAt),
     sprite : Dom(E, "sprite", failAt), frame_count : Dom(E, "frame_count", failAt),
     uix_position : Dom(E, "uix_position", failAt),
     uiy_position : Dom(E, "uiy_position", failAt),
     link_position_y : Dom(E, "link_position_y", failAt),
     visual_rupees : Dom(E, "visual_rupees", failAt),
     visual_hearts : Dom(E, "visual_hearts", failAt),
     visual_keys : Dom(E, "visual_keys", failAt),
     tiger_scrolls : Dom(E, "tiger_scrolls", failAt),
     mysterious_shells : Dom(E, "mysterious_shells", failAt),
     bombs : Dom(E, "bombs", failAt)]

\* Mutation of RunStartGesture: the previous cursor row is not consulted.
RunStartGestureLevel(v) ==
    /\ v.uix_position.current = 24
    /\ v.uiy_position.current > 144

\* The run-start gesture of the TimerState::NotRunning arm.
RunStartGesture(v) ==
    /\ v.uix_position.current = 24
    /\ v.uiy_position.old = 144
    /\ v.uiy_position.current > 144

\* Mutation of RunStartAccumulated: the sign is lost.
RunStartAccumulatedUnsigned(pair) == pair.current

\* `-(vars.frame_count.current as i64)` of the run start.
RunStartAccumulated(pair) == -pair.current

\* Mutation of Accumulate: the wrap is counted one frame short.
AccumulateOld(acc, pair) ==
    IF pair.current < pair.old THEN acc + pair.old ELSE acc

\* The wrap accumulation of the Running | Paused arm.
Accumulate(acc, pair) ==
    IF pair.current < pair.old THEN acc + pair.old + 1 ELSE acc

\* Mutation of NoGame: the Game's fields outlive it.
NoGameKeepsFields ==
    /\ game' = FALSE
    /\ out' = NoCalls
    /\ emittedGame' = {}
    /\ UNCHANGED <<watch, accumulated_frame_count, delayed_split, run_progress,
                   timer_state, emittedRun, reported>>

\* update(), when the game is gone and attach() finds no emulator, or when
\* the emulator is not open: the Game is dropped (its fields are kept at
\* their Game::new_ntscj values while there is no Game).
NoGame ==
    /\ game' = FALSE
    /\ watch' = NewWatch
    /\ accumulated_frame_count' = 0
    /\ delayed_split' = None
    /\ run_progress' = RunProgressDefault
    /\ out' = NoCalls
    /\ emittedGame' = {}
    /\ UNCHANGED <<timer_state, emittedRun, reported>>

\* Mutation of ReadFailed: the wrap step still runs on the pair just read.
ReadFailedAccumulates(w) ==
    /\ game' = TRUE
    /\ watch' = w
    /\ out' = NoCalls
    /\ accumulated_frame_count' =
            IF IsSome(w.frame_count)
            THEN Accumulate(accumulated_frame_count, Unwrap(w.frame_count))
            ELSE accumulated_frame_count
    /\ UNCHANGED <<delayed_split, run_progress, timer_state, emittedRun,
                   emittedGame, reported>>

\* update(), when update_vars returns None at the failAt-th read.
ReadFailed(w) ==
    /\ game' = TRUE
    /\ watch' = w
    /\ out' = NoCalls
    /\ UNCHANGED <<accumulated_frame_count, delayed_split, run_progress,
                   timer_state, emittedRun, emittedGame, reported>>

\* Mutation of NotRunningArm: run_progress is reset on every idle tick.
NotRunningArmAlwaysResets(w) ==
    \E v \in {MakeVars(w, accumulated_frame_count, delayed_split, run_progress)} :
    /\ game' = TRUE
    /\ watch' = w
    /\ run_progress' = RunProgressDefault
    /\ IF RunStartGesture(v)
       THEN /\ accumulated_frame_count' = RunStartAccumulated(v.frame_count)
            /\ timer_state' = "Running"
            /\ out' = Calls(TRUE, TRUE, None, None)
            /\ emittedRun' = {}
            /\ reported' = None
            /\ UNCHANGED <<delayed_split, emittedGame>>
       ELSE /\ out' = Calls(TRUE, FALSE, None, None)
            /\ UNCHANGED <<accumulated_frame_count, delayed_split,
                           timer_state, emittedRun, emittedGame, reported>>

\* update(), the TimerState::NotRunning arm.
NotRunningArm(w) ==
    \E v \in {MakeVars(w, accumulated_frame_count, delayed_split, run_progress)} :
    /\ game' = TRUE
    /\ watch' = w
    /\ IF RunStartGesture(v)
       THEN /\ accumulated_frame_count' = RunStartAccumulated(v.frame_count)
            /\ run_progress' = RunProgressDefault
            /\ timer_state' = "Running"
            /\ out' = Calls(TRUE, TRUE, None, None)
            /\ emittedRun' = {}
            /\ reported' = None
            /\ UNCHANGED <<delayed_split, emittedGame>>
       ELSE /\ out' = Calls(TRUE, FALSE, None, None)
            /\ UNCHANGED <<accumulated_frame_count, delayed_split, run_progress,
                           timer_state, emittedRun, emittedGame, reported>>

\* update(), the TimerState::Running | TimerState::Paused arm.
ActiveArm(w, s, E) ==
    \E acc \in {Accumulate(accumulated_frame_count, Unwrap(w.frame_count))} :
    \E v \in {MakeVars(w, acc, delayed_split, run_progress)} :
    \E verdict \in {should_split(v, s)} :
    \E labels \in {{l \in GuardedLabels : "emitted" \in E.history /\ verdict.ret = Some(l)}} :
    /\ acc <= E.max_acc
    /\ game' = TRUE
    /\ watch' = w
    /\ accumulated_frame_count' = acc
    /\ delayed_split' = verdict.delayed_split
    /\ run_progress' = verdict.run_progress
    /\ out' = Calls(TRUE, FALSE, Some(AsU64(frame_count(v))), verdict.ret)
    /\ emittedRun' = emittedRun \cup labels
    /\ emittedGame' = emittedGame \cup labels
    /\ reported' = IF "reported" \in E.history THEN Some(frame_count(v)) ELSE None
    /\ UNCHANGED timer_state

\* update(), the `_ => {}` arm (TimerState::Ended).
OtherArm(w) ==
    /\ game' = TRUE
    /\ watch' = w
    /\ out' = Calls(TRUE, FALSE, None, None)
    /\ UNCHANGED <<accumulated_frame_count, delayed_split, run_progress,
                   timer_state, emittedRun, emittedGame, reported>>

\* pub extern "C" fn update(): one tick, in the environment E.
Update(E) ==
    \E reg \in (IF IsSome(settings) THEN {Unwrap(settings)} ELSE E.settings),
       attached \in (IF game THEN {TRUE} ELSE E.attach) :
        /\ settings' = Some(reg)
        /\ UNCHANGED clear_on_fail
        /\ IF ~attached
           THEN NoGame
           ELSE \E open \in E.open :
                IF ~open
                THEN NoGame
                ELSE \E failAt \in E.fails : \E mem \in Reads(E, failAt) :
                     \E w \in {UpdateWatchers(watch, mem, failAt, clear_on_fail)} :
                     IF failAt # 0
                     THEN ReadFailed(w)
                     ELSE CASE timer_state = "NotRunning" -> NotRunningArm(w)
                            [] timer_state \in {"Running", "Paused"} -> ActiveArm(w, reg, E)
                            [] OTHER -> OtherArm(w)

(***************************************************************************)
(* The host timer: the user starts, pauses, resumes, resets the run, the   *)
(* last split ends it and an undo resumes it.                              *)
(***************************************************************************)

TimerStates == {"NotRunning", "Running", "Paused", "Ended"}

TimerMoves ==
    {<<"NotRunning", "Running">>, <<"Running", "Paused">>, <<"Paused", "Running">>,
     <<"Running", "Ended">>, <<"Ended", "Running">>, <<"Running", "NotRunning">>,
     <<"Paused", "NotRunning">>, <<"Ended", "NotRunning">>}

TimerChange ==
    /\ \E t \in TimerStates :
        /\ <<timer_state, t>> \in TimerMoves
        /\ timer_state' = t
        /\ reported' = IF t \in {"Running", "Paused"} THEN reported ELSE None
    /\ UNCHANGED <<settings, game, watch, accumulated_frame_count, delayed_split,
                   run_progress, clear_on_fail, out, emittedRun, emittedGame>>

\* static STATE: no game, no settings; the timer idle.
InitIn(E) ==
    /\ settings = None
    /\ game = FALSE
    /\ watch = NewWatch
    /\ accumulated_frame_count = 0
    /\ delayed_split = None
    /\ run_progress = RunProgressDefault
    /\ timer_state = "NotRunning"
    /\ clear_on_fail \in E.clears
    /\ out = NoCalls
    /\ emittedRun = {}
    /\ emittedGame = {}
    /\ reported = None

(***************************************************************************)
(* Environments: the memory values, read failures and process events the   *)
(* explored ticks draw from.                                               *)
(***************************************************************************)

\* A PauseMenu with the given inventory bytes (slot 0 first).
Menu(inv) == [inventory |-> inv, elements |-> 0, permanent_equipment |-> 0]

MenuSword == Menu(<<4, 0, 0, 0, 0, 0>>)
MenuSwordGust == Menu(<<4, 0, 0, 0, 4, 0>>)
MenuFour == Menu(<<0, 16, 0, 0, 0, 0>>)
MenuGust == Menu(<<0, 0, 0, 0, 4, 0>>)

\* Every field fixed, nothing fails, the emulator always there.  `history`
\* names the history variables the environment's runs record.
EnvBase ==
    [pause_menu |-> {EmptyMenu}, scene |-> {Scene.OVERWORLD}, dhc_big_key |-> {0},
     vaati3_phases |-> {0}, sprite |-> {0}, frame_count |-> {0},
     uix_position |-> {24}, uiy_position |-> {144}, link_position_y |-> {0},
     visual_rupees |-> {0}, visual_hearts |-> {0}, visual_keys |-> {0},
     tiger_scrolls |-> {0}, mysterious_shells |-> {0}, bombs |-> {0},
     settings |-> {DefaultSettings}, attach |-> {TRUE}, open |-> {TRUE},
     fails |-> {0}, clears |-> {FALSE, TRUE}, max_acc |-> MaxAccumulated,
     history |-> {}]

\* Areas: a scene left and re-entered, run starts, failing reads, the
\* emulator closing and coming back.
EnvArea ==
    [EnvBase EXCEPT
        !.scene = {Scene.OVERWORLD, Scene.DEEPWOOD_SHRINE},
        !.uiy_position = {144, 145},
        !.frame_count = {0, 250},
        !.open = {TRUE, FALSE},
        !.attach = {TRUE, FALSE},
        !.fails = {0, 2, 15},
        !.history = {"emitted"}]

\* Rule order: several rule conditions at once, with toggles disabled.
EnvOrder ==
    [EnvBase EXCEPT
        !.pause_menu = {EmptyMenu, MenuSwordGust},
        !.scene = {Scene.MINISH_WOODS, Scene.DEEPWOOD_SHRINE},
        !.sprite = {0, Sprite.RECEIVE_MINISH_CAP},
        !.settings = {DefaultSettings, Disabled({"get_smiths_sword"})},
        !.clears = {TRUE}]

\* Delayed splits: the Four Sword rule and an area rule competing with it.
EnvDelay ==
    [EnvBase EXCEPT
        !.pause_menu = {EmptyMenu, MenuFour},
        !.scene = {Scene.MINISH_WOODS, Scene.DEEPWOOD_SHRINE},
        !.frame_count = {0, 250},
        !.clears = {TRUE}]

\* Toggles: the sword rule and both delayed rules, enabled and disabled.
EnvToggle ==
    [EnvBase EXCEPT
        !.pause_menu = {EmptyMenu, MenuSword, MenuFour},
        !.scene = {Scene.MINISH_WOODS},
        !.sprite = {0, Sprite.RECEIVE_MINISH_CAP},
        !.frame_count = {0, 250},
        !.settings = {DefaultSettings,
                      Disabled({"get_smiths_sword", "receive_minish_cap"}),
                      Disabled({"get_four_sword"})},
        !.clears = {TRUE}]

\* Run starts: a delayed split pending when the run is reset and started
\* again.
EnvRestart ==
    [EnvBase EXCEPT
        !.scene = {Scene.MINISH_WOODS},
        !.sprite = {0, Sprite.RECEIVE_MINISH_CAP},
        !.frame_count = {0, 250},
        !.uiy_position = {144, 145},
        !.clears = {TRUE}]

\* The frame clock: the 16-bit counter wrapping, reads failing after the
\* counter was read, run starts.
EnvFrame ==
    [EnvBase EXCEPT
        !.frame_count = {0, 65535},
        !.uiy_position = {144, 145},
        !.fails = {0, 6, 7},
        !.max_acc = MaxAccumulatedWide,
        !.history = {"reported"}]

\* Edges: one item flag set and cleared, reads failing at and after the
\* pause menu, run starts.
EnvEdge ==
    [EnvBase EXCEPT
        !.pause_menu = {EmptyMenu, MenuGust},
        !.uiy_position = {144, 145},
        !.fails = {0, 1, 2}]

\* The sword: its flag set and cleared (save reloads), run starts, the
\* emulator closing and coming back.
EnvSword ==
    [EnvBase EXCEPT
        !.pause_menu = {EmptyMenu, MenuSword},
        !.uiy_position = {144, 145},
        !.open = {TRUE, FALSE},
        !.clears = {TRUE},
        !.history = {"emitted"}]

\* The frame counter running through its wrap: 65534, 65535, 0, 1.
EnvClock ==
    [EnvBase EXCEPT
        !.frame_count = {65534, 65535, 0, 1},
        !.uiy_position = {144, 145},
        !.clears = {TRUE},
        !.max_acc = MaxAccumulatedWide]

\* The game's 16-bit frame counter: a tick reads the value the last tick
\* read, or the next one.
CounterAdvances ==
    (IsSome(watch.frame_count) /\ IsSome(watch'.frame_count)) =>
        Unwrap(watch'.frame_count).current \in
            {Unwrap(watch.frame_count).current,
             (Unwrap(watch.frame_count).current + 1) % 65536}

\* A delayed split pending while its trigger repeats: the Minish Cap
\* sprite shown, hidden and shown again within the 20 frames of the delay.
EnvRepeat ==
    [EnvBase EXCEPT
        !.scene = {Scene.MINISH_WOODS},
        !.sprite = {0, Sprite.RECEIVE_MINISH_CAP},
        !.frame_count = {0, 10},
        !.clears = {TRUE},
        !.max_acc = MaxAccumulatedShort]

Init == InitIn(EnvArea)

Next == Update(EnvArea) \/ TimerChange

Spec == Init /\ [][Next]_vars

InitOrder == InitIn(EnvOrder)

NextOrder == Update(EnvOrder) \/ TimerChange

SpecOrder == InitOrder /\ [][NextOrder]_vars

InitDelay == InitIn(EnvDelay)

NextDelay == Update(EnvDelay) \/ TimerChange

SpecDelay == InitDelay /\ [][NextDelay]_vars

InitFrame == InitIn(EnvFrame)

NextFrame == Update(EnvFrame) \/ TimerChange

SpecFrame == InitFrame /\ [][NextFrame]_vars

InitRestart == InitIn(EnvRestart)

NextRestart == Update(EnvRestart) \/ TimerChange

SpecRestart == InitRestart /\ [][NextRestart]_vars

InitEdge == InitIn(EnvEdge)

NextEdge == Update(EnvEdge) \/ TimerChange

SpecEdge == InitEdge /\ [][NextEdge]_vars

InitSword == InitIn(EnvSword)

NextSword == Update(EnvSword) \/ TimerChange

SpecSword == InitSword /\ [][NextSword]_vars

InitClock == InitIn(EnvClock)

ClockTick == Update(EnvClock) /\ CounterAdvances

NextClock == ClockTick \/ TimerChange

SpecClock == InitClock /\ [][NextClock]_vars

InitRepeat == InitIn(EnvRepeat)

NextRepeat == Update(EnvRepeat) \/ TimerChange

SpecRepeat == InitRepeat /\ [][NextRepeat]_vars

\* Missed edges: the Gust Jar flag set alone or together with the sword
\* flag, the DHC Big Key flag, reads failing at the pause menu and at the
\* key.
EnvMissed ==
    [EnvBase EXCEPT
        !.pause_menu = {EmptyMenu, MenuGust, MenuSwordGust},
        !.dhc_big_key = {0, 4},
        !.fails = {0, 1, 3}]

InitMissed == InitIn(EnvMissed)

NextMissed == Update(EnvMissed) \/ TimerChange

SpecMissed == InitMissed /\ [][NextMissed]_vars

\* The timer after a run start: the user pauses, resumes, ends, undoes and
\* resets the run but never starts the timer by hand, so every run is one
\* that update() started.
TimerChangeInRun == timer_state # "NotRunning" /\ TimerChange

InitDetected == InitIn(EnvFrame)

NextDetected == Update(EnvFrame) \/ TimerChangeInRun

SpecDetected == InitDetected /\ [][NextDetected]_vars

InitToggle == InitIn(EnvToggle)

NextToggle == Update(EnvToggle) \/ TimerChange

SpecToggle == InitToggle /\ [][NextToggle]_vars

(***************************************************************************)
(* Properties.                                                             *)
(***************************************************************************)

\* A step that is a tick on which should_split ran: update() reached the
\* Running | Paused arm (it reports the game time and leaves the timer's
\* state alone; a timer change leaves `out` alone).
EvaluatedTick == timer_state' = timer_state /\ IsSome(out'.game_time)

\* A tick that hands label l to timer::split().
Emits(l) == EvaluatedTick /\ out'.split = Some(l)

\* The logical frame count of a state whose frame counter has been read.
LogicalFrameCount == accumulated_frame_count + Unwrap(watch.frame_count).current

AreaLabels ==
    {Rules[i].label : i \in {j \in RuleIds : Rules[j].kind \in {"area", "area_gated"}}}

\* C2, as stated: an area-entry label is split at most once between two
\* run-start detections, however often its scene is seen or re-entered.
C2_OncePerRunStart ==
    [][\A l \in AreaLabels : Emits(l) => l \notin emittedRun]_vars

\* C2, amended: an area-entry label is split at most once between two resets
\* of run_progress, which are the run-start detection and the rebuilding of
\* the Game after the emulator was closed.
C2_OncePerGuardReset ==
    [][\A l \in AreaLabels : Emits(l) => l \notin (emittedRun \cap emittedGame)]_vars

\* The shrine was entered and split, left, and is entered again on an
\* evaluated tick that splits nothing.
C2_Reentered ==
    /\ "Enter Deepwood Shrine" \in (emittedRun \cap emittedGame)
    /\ IsSome(out.game_time)
    /\ out.split = None
    /\ watch.scene = Some(Pair(Scene.OVERWORLD, Scene.DEEPWOOD_SHRINE))

\* C7: after the tick on which the run start is detected the logical frame
\* count is 0, accumulated_frame_count being minus the counter, and every
\* RunProgress flag is false.
C7_RunStartResets ==
    out.started =>
        /\ accumulated_frame_count = -Unwrap(watch.frame_count).current
        /\ LogicalFrameCount = 0
        /\ \A g \in Guards : ~run_progress[g]

\* A run start with the counter at 250, in a Game that had split the shrine
\* entry (so its guard was set) before.
C7_RestartAfterProgress ==
    /\ out.started
    /\ Unwrap(watch.frame_count).current = 250
    /\ "Enter Deepwood Shrine" \in emittedGame

\* The Vars should_split is given on an evaluated tick: the pairs just
\* read, the accumulator after the wrap step, and delayed_split and
\* run_progress as the tick found them.
TickVars == MakeVars(watch', accumulated_frame_count', delayed_split, run_progress)

DelayedKinds == {"sprite_delayed", "item_delayed"}

\* C1: on every evaluated tick the outcome is that of one rule, the first in
\* order whose condition holds (the delayed-split check before all of them):
\* at most its label is split, and only its guard or its delayed split is
\* written; with no condition holding nothing is split or written.
C1_FirstRuleWins ==
    [][EvaluatedTick =>
        \A v \in {TickVars} :
        \A e \in {{i \in RuleIds : Enters(Rules[i], v, Unwrap(settings'))}} :
            IF DelayedDue(v)
            THEN /\ out'.split = Some(Unwrap(delayed_split)[1])
                 /\ delayed_split' = None
                 /\ run_progress' = run_progress
            ELSE IF e = {}
                 THEN /\ out'.split = None
                      /\ delayed_split' = delayed_split
                      /\ run_progress' = run_progress
                 ELSE \A r \in {Rules[Min(e)]} :
                      /\ out'.split \in {None, Some(r.label)}
                      /\ \A g \in Guards :
                            run_progress'[g] # run_progress[g] =>
                                "guard" \in DOMAIN r /\ r.guard = g
                      /\ delayed_split' # delayed_split =>
                            r.kind \in DelayedKinds /\ out'.split = None]_vars

\* The sword edge, the shrine entry (its guard still clear afterwards) and
\* the Gust Jar edge all held on one tick, and the sword label was split.
C1_ThreeRulesAtOnce ==
    /\ out.split = Some("Get Smith's Sword")
    /\ watch.scene # None /\ Unwrap(watch.scene).current = Scene.DEEPWOOD_SHRINE
    /\ ~run_progress.deepwood_shrine
    /\ CheckFlag(Rules[4], Unwrap(watch.pause_menu))

\* C3: a label handed to timer::split() is never the label of a milestone
\* whose toggle is disabled.
C3_DisabledNeverSplit ==
    \A i \in RuleIds :
        out.split = Some(Rules[i].label) => Unwrap(settings)[Rules[i].toggle]

\* With the sword and Minish Cap toggles disabled: the sword edge was seen
\* earlier in the run (its guard is set), and this evaluated tick saw the
\* Minish Cap sprite edge in Minish Woods and scheduled and split nothing.
C3_DisabledTriggered ==
    /\ settings = Some(Disabled({"get_smiths_sword", "receive_minish_cap"}))
    /\ IsSome(out.game_time)
    /\ out.split = None
    /\ run_progress.smiths_sword
    /\ watch.sprite = Some(Pair(0, Sprite.RECEIVE_MINISH_CAP))
    /\ Unwrap(watch.scene).current = Scene.MINISH_WOODS
    /\ ~CheckFlag(Rules[1], Unwrap(watch.pause_menu))
    /\ delayed_split = None

\* C4: on an evaluated tick on which a disabled milestone's trigger holds
\* and enabled milestones' conditions hold too (no delayed split being due
\* and the sword edge not being taken for a save reload), the first of the
\* enabled milestones acts: its label is split, or its delayed split
\* scheduled.
C4_DisabledDoesNotBlock ==
    [][EvaluatedTick =>
        \A v \in {TickVars} : \A s \in {Unwrap(settings')} :
        \A enabled \in {{j \in RuleIds : s[Rules[j].toggle] /\ Enters(Rules[j], v, s)}} :
            (/\ ~DelayedDue(v)
             /\ ~(Enters(Rules[1], v, s) /\ v.run_progress.smiths_sword)
             /\ \E i \in RuleIds :
                    ~s[Rules[i].toggle] /\ Enters(Rules[i], v, DefaultSettings)
             /\ enabled # {})
            => \A r \in {Rules[Min(enabled)]} :
                  IF r.kind \in DelayedKinds
                  THEN delayed_split' = Some(<<r.label, frame_count(v) + r.delay>>)
                  ELSE out'.split = Some(r.label)]_vars

\* C5: from one evaluated tick to the next, while the timer stays active and
\* no run start intervenes, the frame count handed to set_game_time does not
\* decrease.
C5_ReportedMonotonic ==
    [][(EvaluatedTick /\ IsSome(reported)) =>
            Unwrap(reported') >= Unwrap(reported)]_vars

\* C6: the tick that detects the run start leaves no delayed split pending.
C6_RunStartClearsDelayed == out.started => delayed_split = None

\* C8: on an evaluated tick that finds a delayed split pending, the label is
\* split and the pending split cleared if the frame count has reached the
\* due frame; otherwise the label is not split and a split stays pending.
C8_EmittedWhenDue ==
    [][(EvaluatedTick /\ IsSome(delayed_split)) =>
        IF LogicalFrameCount' >= Unwrap(delayed_split)[2]
        THEN out'.split = Some(Unwrap(delayed_split)[1]) /\ delayed_split' = None
        ELSE out'.split # Some(Unwrap(delayed_split)[1]) /\ IsSome(delayed_split')]_vars

\* An evaluated tick at frame 0 found "Receive Minish Cap" pending for frame
\* 20 (the sprite showed no edge, so the tick did not schedule it) and
\* split nothing.
C8_PendingNotDue ==
    /\ delayed_split = Some(<<"Receive Minish Cap", 20>>)
    /\ IsSome(out.game_time)
    /\ out.split = None
    /\ watch.sprite = Some(Pair(Sprite.RECEIVE_MINISH_CAP, Sprite.RECEIVE_MINISH_CAP))
    /\ LogicalFrameCount = 0

\* C9: on an evaluated tick that finds a delayed split pending and due, its
\* label is split, the pending split cleared, and no rule acts: run_progress
\* is unchanged and no new delayed split is scheduled.
C9_StepZeroFirst ==
    [][(/\ EvaluatedTick
        /\ IsSome(delayed_split)
        /\ LogicalFrameCount' >= Unwrap(delayed_split)[2])
       => /\ out'.split = Some(Unwrap(delayed_split)[1])
          /\ delayed_split' = None
          /\ run_progress' = run_progress]_vars

\* The due "Get Four Sword" was split on a tick on which the shrine was
\* entered (its guard is still clear) and a new Four Sword edge was seen
\* (no new delayed split was scheduled).
C9_DueBeatsRules ==
    /\ out.split = Some("Get Four Sword")
    /\ delayed_split = None
    /\ Unwrap(watch.scene).current = Scene.DEEPWOOD_SHRINE
    /\ ~run_progress.deepwood_shrine
    /\ CheckFlag(Rules[28], Unwrap(watch.pause_menu))

\* A tick on which the Game was there and update_vars returned None.
FailedTick == game' /\ ~out'.vars /\ timer_state' = timer_state

\* C11: a tick on which a read fails makes no timer call (no start, no
\* set_game_time, no split) and leaves accumulated_frame_count,
\* delayed_split and run_progress as they were.
C11_FailedReadSkipsTick ==
    [][FailedTick =>
        /\ ~out'.started /\ out'.game_time = None /\ out'.split = None
        /\ accumulated_frame_count' = accumulated_frame_count
        /\ delayed_split' = delayed_split
        /\ run_progress' = run_progress]_vars

\* The timer is Running, the frame counter was read wrapping from 65535 to
\* 0, a later read failed, and nothing was accumulated or reported.
C11_WrapSeenTickSkipped ==
    /\ game /\ ~out.vars
    /\ timer_state = "Running"
    /\ watch.frame_count = Some(Pair(65535, 0))
    /\ accumulated_frame_count = 0

\* C12: on an evaluated tick on which no other rule competes, "Get Gust
\* Jar" is split iff the Gust Jar flag is set in the current pause menu and
\* clear in the previous one; and it is not split on a tick that found the
\* flag already set in the value read last.
C12_EdgeTriggered ==
    [][EvaluatedTick =>
        \A p \in {Unwrap(watch'.pause_menu)} :
            /\ (out'.split = Some("Get Gust Jar")) <=>
                    (/\ ~has_item(p.old, inventory_slot.GUST_JAR, InventoryItem.GUST_JAR)
                     /\ has_item(p.current, inventory_slot.GUST_JAR, InventoryItem.GUST_JAR))
            /\ (/\ IsSome(watch.pause_menu)
                /\ has_item(Unwrap(watch.pause_menu).current,
                            inventory_slot.GUST_JAR, InventoryItem.GUST_JAR))
               => out'.split # Some("Get Gust Jar")]_vars

\* An evaluated tick saw the Gust Jar flag set in both the previous and the
\* current pause menu and split nothing.
C12_FlagStaysSet ==
    /\ IsSome(out.game_time)
    /\ out.split = None
    /\ watch.pause_menu = Some(Pair(MenuGust, MenuGust))

\* The sword flag edge in the pair p.
SwordEdge(p) ==
    /\ ~has_item(p.old, inventory_slot.SMITHS_SWORD, InventoryItem.SMITHS_SWORD)
    /\ has_item(p.current, inventory_slot.SMITHS_SWORD, InventoryItem.SMITHS_SWORD)

\* C13, as stated: "Get Smith's Sword" is split at most once between two
\* run-start detections.
C13_SwordOncePerRunStart ==
    [][Emits("Get Smith's Sword") => "Get Smith's Sword" \notin emittedRun]_vars

\* C13, amended: with the toggle enabled, an evaluated tick that sees the
\* sword flag edge with the smiths_sword guard clear splits "Get Smith's
\* Sword" and sets the guard; the label is split on no other tick, and not
\* again until run_progress is reset by a run start or by the Game being
\* rebuilt.
C13_SwordOncePerGuardReset ==
    [][/\ Emits("Get Smith's Sword") =>
            /\ "Get Smith's Sword" \notin (emittedRun \cap emittedGame)
            /\ SwordEdge(Unwrap(watch'.pause_menu))
            /\ ~run_progress.smiths_sword /\ run_progress'.smiths_sword
       /\ (/\ EvaluatedTick
           /\ SwordEdge(Unwrap(watch'.pause_menu))
           /\ ~run_progress.smiths_sword)
          => Emits("Get Smith's Sword")]_vars

\* After the label was split in this run, an evaluated tick saw the sword
\* flag edge again (a save reload) and split nothing.
C13_ReloadSuppressed ==
    /\ "Get Smith's Sword" \in (emittedRun \cap emittedGame)
    /\ IsSome(out.game_time)
    /\ out.split = None
    /\ watch.pause_menu = Some(Pair(EmptyMenu, MenuSword))

\* The label of the rule that sets the guard g.
GuardLabel(g) == Rules[CHOOSE i \in RuleIds : "guard" \in DOMAIN Rules[i] /\ Rules[i].guard = g].label

\* C14, as stated: a guard that is set is cleared only by a tick that
\* detects the run start.
C14_GuardsResetOnlyAtRunStart ==
    [][\A g \in Guards : (run_progress[g] /\ ~run_progress'[g]) => out'.started]_vars

\* C14, amended: a guard is set only by an evaluated tick on which its rule
\* fires (splitting its label, with the toggle enabled), and once set it
\* stays set until a tick detects the run start or drops the Game.
C14_GuardsResetWithGameOrRunStart ==
    [][\A g \in Guards :
        /\ (run_progress[g] /\ ~run_progress'[g]) => (out'.started \/ ~game')
        /\ (~run_progress[g] /\ run_progress'[g]) =>
                (EvaluatedTick /\ out'.split = Some(GuardLabel(g)))]_vars

\* The shrine guard is set, the timer is Paused and the last tick was
\* skipped for a failed read: the guard survived both.
C14_GuardSurvives ==
    /\ run_progress.deepwood_shrine
    /\ timer_state = "Paused"
    /\ game /\ ~out.vars

\* C15, as stated: every tick on which the timer is Running or Paused (and
\* the emulator is attached and open) calls set_game_time.
C15_ReportsOnEveryActiveTick ==
    [][(timer_state \in {"Running", "Paused"} /\ timer_state' = timer_state /\ game')
        => IsSome(out'.game_time)]_vars

\* C15, amended: every tick on which the timer is Running or Paused and
\* update_vars returned the fields calls set_game_time with the logical
\* frame count (accumulated_frame_count + frame_count.current, as u64),
\* whether or not it splits.
C15_ReportsWhenFieldsRead ==
    [][(/\ timer_state \in {"Running", "Paused"}
        /\ timer_state' = timer_state
        /\ out'.vars)
       => \A n \in {accumulated_frame_count' + Unwrap(watch'.frame_count).current} :
            out'.game_time = Some([wrapped |-> n < 0, low |-> n])]_vars

\* A tick reported 250 frames and split "Enter Deepwood Shrine" as well.
C15_ReportedWithSplit ==
    /\ out.game_time = Some([wrapped |-> FALSE, low |-> 250])
    /\ out.split = Some("Enter Deepwood Shrine")

\* C16: on an evaluated tick accumulated_frame_count grows by old + 1 if
\* the counter pair shows current < old and is unchanged otherwise; and when
\* the counter moved on by one frame since the last evaluated tick (from
\* 65535 to 0 included), the frame count reported grows by exactly one.
C16_WrapAddsOldPlusOne ==
    [][EvaluatedTick =>
        \A p \in {Unwrap(watch'.frame_count)} :
            /\ accumulated_frame_count' =
                    IF p.current < p.old
                    THEN accumulated_frame_count + p.old + 1
                    ELSE accumulated_frame_count
            /\ (IsSome(out.game_time) /\ p.current = (p.old + 1) % 65536)
               => Unwrap(out'.game_time).low = Unwrap(out.game_time).low + 1]_vars

\* The counter went through 65535, 0, 1: the wrap added 65536 and frame
\* 65537 was reported.
C16_AfterWrap ==
    /\ accumulated_frame_count = 65536
    /\ watch.frame_count = Some(Pair(0, 1))
    /\ out.game_time = Some([wrapped |-> FALSE, low |-> 65537])

\* C17: timer::start() is called exactly on the ticks that find the timer
\* NotRunning and read uix.current = 24, uiy.old = 144 and uiy.current >
\* 144; such a tick splits nothing, reports no game time and runs no rule;
\* and a tick with the timer Running, Paused or Ended (the Game staying
\* attached) calls no timer::start(), clears no guard and never lowers
\* accumulated_frame_count.
C17_RunStartOnlyWhenIdle ==
    [][~TimerChange =>
       /\ out'.started <=>
            /\ timer_state = "NotRunning" /\ timer_state' = "Running"
            /\ out'.vars
            /\ Unwrap(watch'.uix_position).current = 24
            /\ Unwrap(watch'.uiy_position).old = 144
            /\ Unwrap(watch'.uiy_position).current > 144
       /\ out'.started =>
            /\ out'.split = None /\ out'.game_time = None
            /\ delayed_split' = delayed_split
       /\ (timer_state # "NotRunning" /\ game') =>
            /\ timer_state' = timer_state
            /\ \A g \in Guards : run_progress[g] => run_progress'[g]
            /\ accumulated_frame_count' >= accumulated_frame_count]_vars

\* A tick with the timer Running read the run-start gesture, with the
\* shrine guard set: no start, the guard and the accumulator (251 after a
\* wrap) kept.
C17_GestureWhileRunning ==
    /\ timer_state = "Running"
    /\ out.vars /\ ~out.started /\ IsSome(out.game_time)
    /\ watch.uix_position = Some(Pair(24, 24))
    /\ watch.uiy_position = Some(Pair(144, 145))
    /\ run_progress.deepwood_shrine
    /\ accumulated_frame_count = 251

\* C18: a tick that finds no emulator, or finds it not open, ends without a
\* Game and makes no timer call; and the first tick that has a Game again
\* works on a fresh one: every watcher empty or on its first value (old =
\* current), no delayed split, the accumulator 0 (or -frame_count.current
\* if that tick detects the run start), and no guard set except by that
\* tick's own split.
C18_TeardownAndLazyRebuild ==
    [][~TimerChange =>
        /\ ~game' =>
            /\ out' = NoCalls
            /\ timer_state' = timer_state
        /\ (~game /\ game') =>
            /\ \A f \in Fields :
                    watch'[f] = None \/ Unwrap(watch'[f]).old = Unwrap(watch'[f]).current
            /\ delayed_split' = None
            /\ accumulated_frame_count' =
                    IF out'.started THEN -Unwrap(watch'.frame_count).current ELSE 0
            /\ \A g \in Guards :
                    run_progress'[g] => out'.split = Some(GuardLabel(g))]_vars

\* "Enter Deepwood Shrine" was split in this run, the emulator closed and
\* came back: the tick after re-attaching has first values in its
\* watchers and the shrine guard clear.
C18_FreshAfterDrop ==
    /\ game /\ out.vars
    /\ timer_state = "Running"
    /\ "Enter Deepwood Shrine" \in emittedRun
    /\ emittedGame = {}
    /\ ~run_progress.deepwood_shrine
    /\ watch.scene = Some(Pair(Scene.OVERWORLD, Scene.OVERWORLD))
    /\ accumulated_frame_count = 0

\* C20: a pending delayed split stays as it is from step to step, until
\* the tick that splits its label clears it (or a run start or the loss of
\* the Game discards it).
C20_PendingSplitUntouched ==
    [][IsSome(delayed_split) =>
        \/ delayed_split' = delayed_split
        \/ /\ delayed_split' = None
           /\ \/ out'.split = Some(Unwrap(delayed_split)[1])
              \/ out'.started
              \/ ~game']_vars

DelayedRuleIds == {i \in RuleIds : Rules[i].kind \in DelayedKinds}

\* C21: on an evaluated tick on which a delayed rule (Receive Minish Cap,
\* 20 frames; Get Four Sword, 244 frames) is the rule should_split enters,
\* its label is scheduled for the frame count of the tick plus the delay,
\* nothing is split and no later rule acts; and a delayed rule's label is
\* split only by the delayed-split check, on a tick that found it pending
\* (scheduled by an earlier tick) and due.
C21_DelayedRuleSchedules ==
    [][EvaluatedTick =>
        \A v \in {TickVars} : \A s \in {Unwrap(settings')} :
        \A i \in DelayedRuleIds : \A r \in {Rules[i]} :
            /\ (/\ ~DelayedDue(v)
                /\ Enters(r, v, s)
                /\ \A k \in 1..(i - 1) : ~Enters(Rules[k], v, s))
               => /\ delayed_split' = Some(<<r.label, LogicalFrameCount' + r.delay>>)
                  /\ out'.split = None
                  /\ run_progress' = run_progress
            /\ out'.split = Some(r.label)
               => /\ IsSome(delayed_split)
                  /\ Unwrap(delayed_split)[1] = r.label
                  /\ LogicalFrameCount' >= Unwrap(delayed_split)[2]
                  /\ delayed_split' = None]_vars

\* The Minish Cap sprite edge and the Four Sword edge were seen on one
\* evaluated tick at frame 0 with every toggle enabled: "Receive Minish Cap"
\* is pending for frame 20, nothing was split, and the Four Sword rule did
\* not schedule its own label.
C21_ScheduledNotSplit ==
    /\ settings = Some(DefaultSettings)
    /\ IsSome(out.game_time)
    /\ out.split = None
    /\ watch.sprite = Some(Pair(0, Sprite.RECEIVE_MINISH_CAP))
    /\ CheckFlag(Rules[28], Unwrap(watch.pause_menu))
    /\ LogicalFrameCount = 0
    /\ delayed_split = Some(<<"Receive Minish Cap", 20>>)

\* C22: in runs started by the run-start detection, the frame count handed
\* to set_game_time is never negative, so the cast to u64 never wraps.
C22_ReportedNeverNegative ==
    IsSome(out.game_time) => ~Unwrap(out.game_time).wrapped

\* The rules that return an item's label at once on its flag's edge.
ImmediateItemRuleIds == {i \in RuleIds : Rules[i].kind \in {"item", "key"}}

\* The watcher rule r checks.
RuleField(r) == IF r.kind = "key" THEN "dhc_big_key" ELSE "pause_menu"

\* Whether rule r's flag is set in a value of its watcher.
FlagSet(r, value) ==
    IF r.kind = "key" THEN Contains(value, r.mask) ELSE MenuFlag(r, value)

\* C23: the label of an immediate item rule is split only on an evaluated
\* tick whose pair shows the flag clear in old and set in current, the
\* value read last before the tick having had the flag clear; so once a
\* tick has read the flag set without splitting the label (an earlier rule
\* returned first, the timer was not active, a later read failed), no later
\* tick splits it while the flag stays set.
C23_ItemOnlyOnFlagEdge ==
    [][\A i \in ImmediateItemRuleIds : \A r \in {Rules[i]} :
        (~TimerChange /\ out'.split = Some(r.label)) =>
            /\ EvaluatedTick
            /\ \A p \in {Unwrap(watch'[RuleField(r)])} :
                    ~FlagSet(r, p.old) /\ FlagSet(r, p.current)
            /\ IsSome(watch[RuleField(r)])
            /\ ~FlagSet(r, Unwrap(watch[RuleField(r)]).current)]_vars

\* The Gust Jar flag and the DHC Big Key flag went from clear to set on
\* the tick on which the sword edge was seen, and the sword's label was
\* split: both item edges are spent without their labels.
C23_EdgesLostToSword ==
    /\ out.split = Some("Get Smith's Sword")
    /\ watch.pause_menu = Some(Pair(EmptyMenu, MenuSwordGust))
    /\ watch.dhc_big_key = Some(Pair(0, 4))

====
